---- MODULE Spec2Model ----
(***************************************************************************)
(* Model of the ROSCA circle state machine of src/src/lib.rs:              *)
(* CircleState::new, add_member, record_contribution,                      *)
(* is_round_fully_funded, execute_payout, validate and state_hash.         *)
(*                                                                         *)
(* A Satoshis value (u64) is a tuple of four 16-bit limbs, most            *)
(* significant first, so that the 64-bit addition of record_contribution   *)
(* and of validate keeps its width.                                        *)
(***************************************************************************)
EXTENDS Integers, Sequences, FiniteSets, TLC

VARIABLES
    circle,           \* the CircleState value threaded through the calls
    overflow_checks,  \* build profile: TRUE = debug (overflow panics), FALSE = release (wraps)
    panicked,         \* TRUE once a call has panicked (the process is gone)
    payouts,          \* the recipients returned by the successful execute_payout calls, in order
    last              \* the last call: its operation, the pubkey passed to add_member or
                      \* record_contribution, the timestamp passed to execute_payout,
                      \* its result and the value it returned

vars == <<circle, overflow_checks, panicked, payouts, last>>

----------------------------------------------------------------------------
(* Bounds of the model *)

MaxMembers == 2        \* at most this many members join

\* Arguments of the calls.  A public key 1, 2, 3 stands for a distinct
\* 33-byte compressed key.  created_at is 0 and the timestamps passed to
\* add_member, record_contribution and execute_payout are drawn from
\* disjoint sets, so that a value stored in the wrong field shows.
PubKeys == {1, 2, 3}
JoinTimes == {3}
ContributionTimes == {7}
PayoutTimes == {1, 2}
Txids == {9}
PayoutRounds == 0..MaxMembers

----------------------------------------------------------------------------
(* Satoshis = u64 as four 16-bit limbs *)

LimbBase == 65536

\* 0; 100_000, the amount of the tests; 2^63 + 1, whose double overflows
SatZero == <<0, 0, 0, 0>>
Sat100k == <<0, 0, 1, 34464>>
SatBig == <<32768, 0, 0, 1>>

ContributionValues == {Sat100k, SatBig}

\* u64 addition: the wrapped sum and whether it overflowed
Add64(a, b) ==
    LET s4 == a[4] + b[4]
        s3 == a[3] + b[3] + (s4 \div LimbBase)
        s2 == a[2] + b[2] + (s3 \div LimbBase)
        s1 == a[1] + b[1] + (s2 \div LimbBase)
    IN  [val |-> <<s1 % LimbBase, s2 % LimbBase, s3 % LimbBase, s4 % LimbBase>>,
         overflow |-> (s1 \div LimbBase) > 0]

----------------------------------------------------------------------------
(* CircleState::new *)

ZeroHash == <<>>

new(circle_id, contribution_per_round, round_duration, created_at) ==
    [circle_id |-> circle_id,
     members |-> <<>>,
     current_round |-> 0,
     total_rounds |-> 0,
     contribution_per_round |-> contribution_per_round,
     current_payout_index |-> 0,
     current_pool |-> SatZero,
     created_at |-> created_at,
     round_started_at |-> created_at,
     round_duration |-> round_duration,
     is_complete |-> FALSE,
     prev_state_hash |-> ZeroHash]

----------------------------------------------------------------------------
(* CircleState::state_hash: SHA-256 of the CBOR encoding, fields in         *)
(* declaration order.  The digest is modelled collision-free: it denotes    *)
(* the byte string that was hashed.                                         *)

EncodeRecord(r) == <<r.round, r.amount, r.timestamp, r.txid>>

EncodeMember(m) ==
    <<m.pubkey, m.contribution_amount,
      [i \in 1..Len(m.contribution_history) |-> EncodeRecord(m.contribution_history[i])],
      m.has_received_payout, m.payout_round, m.joined_at>>

Encode(c) ==
    <<c.circle_id,
      [i \in 1..Len(c.members) |-> EncodeMember(c.members[i])],
      c.current_round, c.total_rounds, c.contribution_per_round,
      c.current_payout_index, c.current_pool, c.created_at,
      c.round_started_at, c.round_duration, c.is_complete, c.prev_state_hash>>

Sha256(bytes) == <<bytes>>

state_hash(c) == Sha256(Encode(c))

----------------------------------------------------------------------------
(* ciborium::de::from_reader::<CircleState>: the derived Deserialize reads   *)
(* the fields back from the encoding.                                       *)

DecodeRecord(b) == [round |-> b[1], amount |-> b[2], timestamp |-> b[3], txid |-> b[4]]

DecodeMember(b) ==
    [pubkey |-> b[1],
     contribution_amount |-> b[2],
     contribution_history |-> [i \in 1..Len(b[3]) |-> DecodeRecord(b[3][i])],
     has_received_payout |-> b[4],
     payout_round |-> b[5],
     joined_at |-> b[6]]

\* mutant: created_at and round_started_at are read from each other's place
Decode_swapped(b) ==
    [circle_id |-> b[1],
     members |-> [i \in 1..Len(b[2]) |-> DecodeMember(b[2][i])],
     current_round |-> b[3],
     total_rounds |-> b[4],
     contribution_per_round |-> b[5],
     current_payout_index |-> b[6],
     current_pool |-> b[7],
     created_at |-> b[9],
     round_started_at |-> b[8],
     round_duration |-> b[10],
     is_complete |-> b[11],
     prev_state_hash |-> b[12]]

Decode(b) ==
    [circle_id |-> b[1],
     members |-> [i \in 1..Len(b[2]) |-> DecodeMember(b[2][i])],
     current_round |-> b[3],
     total_rounds |-> b[4],
     contribution_per_round |-> b[5],
     current_payout_index |-> b[6],
     current_pool |-> b[7],
     created_at |-> b[8],
     round_started_at |-> b[9],
     round_duration |-> b[10],
     is_complete |-> b[11],
     prev_state_hash |-> b[12]]

----------------------------------------------------------------------------
(* Helpers on members *)

\* any(|c| c.round == round) over a member's history
HasRecord(m, round) ==
    \E k \in 1..Len(m.contribution_history) : m.contribution_history[k].round = round

\* members.iter().any(|m| m.pubkey == pubkey)
HasMember(c, pubkey) ==
    \E i \in 1..Len(c.members) : c.members[i].pubkey = pubkey

\* members.iter_mut().find(|m| &m.pubkey == pubkey): the position (1-based)
\* of the first member with this pubkey, 0 if there is none
FindMember(c, pubkey) ==
    IF HasMember(c, pubkey)
    THEN CHOOSE i \in 1..Len(c.members) :
            /\ c.members[i].pubkey = pubkey
            /\ \A j \in 1..(i - 1) : c.members[j].pubkey # pubkey
    ELSE 0

----------------------------------------------------------------------------
(* CircleState::add_member *)

\* mutant: the duplicate check is dropped
add_member_check_no_dup(c, pubkey, payout_round) ==
    IF c.current_round > 0 THEN "AlreadyStarted"
    ELSE IF payout_round >= Len(c.members) + 1 THEN "InvalidPayoutRound"
    ELSE "Ok"

\* mutant: the payout round bound is off by one
add_member_check_loose(c, pubkey, payout_round) ==
    IF c.current_round > 0 THEN "AlreadyStarted"
    ELSE IF HasMember(c, pubkey) THEN "DuplicateMember"
    ELSE IF payout_round > Len(c.members) + 1 THEN "InvalidPayoutRound"
    ELSE "Ok"

\* mutant: the started check is dropped
add_member_check_no_started(c, pubkey, payout_round) ==
    IF HasMember(c, pubkey) THEN "DuplicateMember"
    ELSE IF payout_round >= Len(c.members) + 1 THEN "InvalidPayoutRound"
    ELSE "Ok"

\* mutant: the started check is off by one round
add_member_check_started_late(c, pubkey, payout_round) ==
    IF c.current_round > 1 THEN "AlreadyStarted"
    ELSE IF HasMember(c, pubkey) THEN "DuplicateMember"
    ELSE IF payout_round >= Len(c.members) + 1 THEN "InvalidPayoutRound"
    ELSE "Ok"

\* the validation: the first error, or "Ok"
add_member_check(c, pubkey, payout_round) ==
    IF c.current_round > 0 THEN "AlreadyStarted"
    ELSE IF HasMember(c, pubkey) THEN "DuplicateMember"
    ELSE IF payout_round >= Len(c.members) + 1 THEN "InvalidPayoutRound"
    ELSE "Ok"

\* mutant: total_rounds is taken before the push
add_member_push_stale_rounds(c, pubkey, payout_round, timestamp) ==
    LET member == [pubkey |-> pubkey,
                   contribution_amount |-> c.contribution_per_round,
                   contribution_history |-> <<>>,
                   has_received_payout |-> FALSE,
                   payout_round |-> payout_round,
                   joined_at |-> timestamp]
        pushed == [c EXCEPT !.members = Append(@, member)]
    IN  [pushed EXCEPT !.total_rounds = Len(c.members)]

\* the push of the new member and the recomputation of total_rounds
add_member_push(c, pubkey, payout_round, timestamp) ==
    LET member == [pubkey |-> pubkey,
                   contribution_amount |-> c.contribution_per_round,
                   contribution_history |-> <<>>,
                   has_received_payout |-> FALSE,
                   payout_round |-> payout_round,
                   joined_at |-> timestamp]
        pushed == [c EXCEPT !.members = Append(@, member)]
    IN  [pushed EXCEPT !.total_rounds = Len(pushed.members)]

add_member(c, pubkey, payout_round, timestamp) ==
    LET e == add_member_check(c, pubkey, payout_round) IN
    IF e # "Ok"
    THEN [circle |-> c, result |-> e]
    ELSE [circle |-> add_member_push(c, pubkey, payout_round, timestamp), result |-> "Ok"]

----------------------------------------------------------------------------
(* CircleState::record_contribution *)

\* mutant: the completion check is dropped
record_contribution_check_no_complete(c, pubkey, amount) ==
    IF FindMember(c, pubkey) = 0 THEN "MemberNotFound"
    ELSE IF HasRecord(c.members[FindMember(c, pubkey)], c.current_round)
         THEN "DuplicateContribution"
    ELSE IF amount # c.contribution_per_round THEN "AmountMismatch"
    ELSE "Ok"

\* mutant: the duplicate check is dropped
record_contribution_check_no_dup(c, pubkey, amount) ==
    IF c.is_complete THEN "CircleComplete"
    ELSE IF FindMember(c, pubkey) = 0 THEN "MemberNotFound"
    ELSE IF amount # c.contribution_per_round THEN "AmountMismatch"
    ELSE "Ok"

\* the validation: the first error, or "Ok"
record_contribution_check(c, pubkey, amount) ==
    IF c.is_complete THEN "CircleComplete"
    ELSE IF FindMember(c, pubkey) = 0 THEN "MemberNotFound"
    ELSE IF HasRecord(c.members[FindMember(c, pubkey)], c.current_round)
         THEN "DuplicateContribution"
    ELSE IF amount # c.contribution_per_round THEN "AmountMismatch"
    ELSE "Ok"

\* mutant: the record is put at the head of the history
record_contribution_push_front(c, pubkey, amount, timestamp, txid) ==
    LET rec == [round |-> c.current_round, amount |-> amount,
                timestamp |-> timestamp, txid |-> txid]
    IN  [c EXCEPT !.members[FindMember(c, pubkey)].contribution_history = <<rec>> \o @]

\* the push of the record onto the member's history
record_contribution_push(c, pubkey, amount, timestamp, txid) ==
    LET rec == [round |-> c.current_round, amount |-> amount,
                timestamp |-> timestamp, txid |-> txid]
    IN  [c EXCEPT !.members[FindMember(c, pubkey)].contribution_history = Append(@, rec)]

\* mutant: the record is pushed before the amount is validated
record_contribution_push_first(c, pubkey, amount, timestamp, txid, checks) ==
    LET e == record_contribution_check(c, pubkey, amount) IN
    IF e = "AmountMismatch"
    THEN [circle |-> record_contribution_push(c, pubkey, amount, timestamp, txid), result |-> e]
    ELSE IF e # "Ok"
    THEN [circle |-> c, result |-> e]
    ELSE LET pushed == record_contribution_push(c, pubkey, amount, timestamp, txid)
             sum == Add64(c.current_pool, amount)
         IN  IF sum.overflow /\ checks
             THEN [circle |-> pushed, result |-> "Panic"]
             ELSE [circle |-> [pushed EXCEPT !.current_pool = sum.val], result |-> "Ok"]

\* self.current_pool += amount: panics on overflow when the build checks
\* overflow, after the record was pushed; wraps otherwise
record_contribution(c, pubkey, amount, timestamp, txid, checks) ==
    LET e == record_contribution_check(c, pubkey, amount) IN
    IF e # "Ok"
    THEN [circle |-> c, result |-> e]
    ELSE LET pushed == record_contribution_push(c, pubkey, amount, timestamp, txid)
             sum == Add64(c.current_pool, amount)
         IN  IF sum.overflow /\ checks
             THEN [circle |-> pushed, result |-> "Panic"]
             ELSE [circle |-> [pushed EXCEPT !.current_pool = sum.val], result |-> "Ok"]

----------------------------------------------------------------------------
(* CircleState::is_round_fully_funded *)

\* mutant: one contribution is enough
is_round_fully_funded_any(c) ==
    LET contributions_this_round ==
            Cardinality({i \in 1..Len(c.members) : HasRecord(c.members[i], c.current_round)})
    IN  contributions_this_round > 0 \/ Len(c.members) = 0

is_round_fully_funded(c) ==
    LET contributions_this_round ==
            Cardinality({i \in 1..Len(c.members) : HasRecord(c.members[i], c.current_round)})
    IN  contributions_this_round = Len(c.members)

----------------------------------------------------------------------------
(* CircleState::execute_payout.  current_payout_index is 0-based as in the  *)
(* source; members is a 1-based sequence.                                   *)

\* the validation: the first error, or "Ok"
execute_payout_check(c) ==
    IF c.is_complete THEN "CircleComplete"
    ELSE IF ~is_round_fully_funded(c) THEN "RoundNotFunded"
    ELSE IF c.current_payout_index >= Len(c.members) THEN "InvalidIndex"
    ELSE IF c.members[c.current_payout_index + 1].has_received_payout THEN "AlreadyPaid"
    ELSE "Ok"

\* mutant: the recipient is the member scheduled for the current round
execute_payout_recipient_by_round(c) ==
    IF \E i \in 1..Len(c.members) : c.members[i].payout_round = c.current_round
    THEN c.members[CHOOSE i \in 1..Len(c.members) :
                      /\ c.members[i].payout_round = c.current_round
                      /\ \A j \in 1..(i - 1) : c.members[j].payout_round # c.current_round].pubkey
    ELSE c.members[c.current_payout_index + 1].pubkey

\* the recipient of the payout
execute_payout_recipient(c) == c.members[c.current_payout_index + 1].pubkey

\* mutant: the hash is taken after the pool and the round were reset
execute_payout_commit_hash_late(c, timestamp) ==
    LET paid == [c EXCEPT !.members[c.current_payout_index + 1].has_received_payout = TRUE]
        moved == [paid EXCEPT
                     !.current_pool = SatZero,
                     !.current_round = @ + 1,
                     !.current_payout_index = (@ + 1) % Len(c.members),
                     !.round_started_at = timestamp]
        hashed == [moved EXCEPT !.prev_state_hash = state_hash(moved)]
    IN  IF hashed.current_round >= hashed.total_rounds
        THEN [hashed EXCEPT !.is_complete = TRUE]
        ELSE hashed

\* mutant: the pool is not reset
execute_payout_commit_keep_pool(c, timestamp) ==
    LET paid == [c EXCEPT !.members[c.current_payout_index + 1].has_received_payout = TRUE]
        hashed == [paid EXCEPT !.prev_state_hash = state_hash(paid)]
        moved == [hashed EXCEPT
                     !.current_round = @ + 1,
                     !.current_payout_index = (@ + 1) % Len(c.members),
                     !.round_started_at = timestamp]
    IN  IF moved.current_round >= moved.total_rounds
        THEN [moved EXCEPT !.is_complete = TRUE]
        ELSE moved

\* mutant: the completion test is off by one round
execute_payout_commit_gt(c, timestamp) ==
    LET paid == [c EXCEPT !.members[c.current_payout_index + 1].has_received_payout = TRUE]
        hashed == [paid EXCEPT !.prev_state_hash = state_hash(paid)]
        moved == [hashed EXCEPT
                     !.current_pool = SatZero,
                     !.current_round = @ + 1,
                     !.current_payout_index = (@ + 1) % Len(c.members),
                     !.round_started_at = timestamp]
    IN  IF moved.current_round > moved.total_rounds
        THEN [moved EXCEPT !.is_complete = TRUE]
        ELSE moved

\* mutant: the recipient is not marked as paid
execute_payout_commit_no_mark(c, timestamp) ==
    LET hashed == [c EXCEPT !.prev_state_hash = state_hash(c)]
        moved == [hashed EXCEPT
                     !.current_pool = SatZero,
                     !.current_round = @ + 1,
                     !.current_payout_index = (@ + 1) % Len(c.members),
                     !.round_started_at = timestamp]
    IN  IF moved.current_round >= moved.total_rounds
        THEN [moved EXCEPT !.is_complete = TRUE]
        ELSE moved

\* mutant: the payout index is not advanced
execute_payout_commit_keep_index(c, timestamp) ==
    LET paid == [c EXCEPT !.members[c.current_payout_index + 1].has_received_payout = TRUE]
        hashed == [paid EXCEPT !.prev_state_hash = state_hash(paid)]
        moved == [hashed EXCEPT
                     !.current_pool = SatZero,
                     !.current_round = @ + 1,
                     !.round_started_at = timestamp]
    IN  IF moved.current_round >= moved.total_rounds
        THEN [moved EXCEPT !.is_complete = TRUE]
        ELSE moved

\* the state after a payout
execute_payout_commit(c, timestamp) ==
    LET paid == [c EXCEPT !.members[c.current_payout_index + 1].has_received_payout = TRUE]
        hashed == [paid EXCEPT !.prev_state_hash = state_hash(paid)]
        moved == [hashed EXCEPT
                     !.current_pool = SatZero,
                     !.current_round = @ + 1,
                     !.current_payout_index = (@ + 1) % Len(c.members),
                     !.round_started_at = timestamp]
    IN  IF moved.current_round >= moved.total_rounds
        THEN [moved EXCEPT !.is_complete = TRUE]
        ELSE moved

\* mutant: the round is restarted before the round is known to be funded
execute_payout_stamp_first(c, timestamp) ==
    LET e == execute_payout_check(c) IN
    IF e = "RoundNotFunded"
    THEN [circle |-> [c EXCEPT !.round_started_at = timestamp], result |-> e, ret |-> <<>>]
    ELSE IF e # "Ok"
    THEN [circle |-> c, result |-> e, ret |-> <<>>]
    ELSE [circle |-> execute_payout_commit(c, timestamp), result |-> "Ok",
          ret |-> <<execute_payout_recipient(c), c.current_pool>>]

execute_payout(c, timestamp) ==
    LET e == execute_payout_check(c) IN
    IF e # "Ok"
    THEN [circle |-> c, result |-> e, ret |-> <<>>]
    ELSE [circle |-> execute_payout_commit(c, timestamp), result |-> "Ok",
          ret |-> <<execute_payout_recipient(c), c.current_pool>>]

----------------------------------------------------------------------------
(* CircleState::validate: the first failure in the order of the source, or  *)
(* "Ok"                                                                     *)

RECURSIVE validate_history(_, _, _, _)
\* the loop over one member's contribution_history from record k on;
\* rounds_seen is the key set of the map
validate_history(c, h, k, rounds_seen) ==
    IF k > Len(h) THEN "Ok"
    ELSE IF h[k].round >= c.total_rounds THEN "InvalidContributionRound"
    ELSE IF h[k].amount # c.contribution_per_round THEN "InvalidContributionAmount"
    ELSE IF h[k].round \in rounds_seen THEN "DuplicateContributionRound"
    ELSE validate_history(c, h, k + 1, rounds_seen \cup {h[k].round})

\* mutant: a paid member's payout round is not compared with the current round
validate_member_no_paid(c, m) ==
    IF m.payout_round >= c.total_rounds THEN "InvalidMemberPayoutRound"
    ELSE validate_history(c, m.contribution_history, 1, {})

validate_member(c, m) ==
    IF m.payout_round >= c.total_rounds THEN "InvalidMemberPayoutRound"
    ELSE IF m.has_received_payout /\ m.payout_round >= c.current_round THEN "PaidBeforeRound"
    ELSE validate_history(c, m.contribution_history, 1, {})

RECURSIVE validate_members(_, _)
\* the loop over the members from position i on
validate_members(c, i) ==
    IF i > Len(c.members) THEN "Ok"
    ELSE LET e == validate_member(c, c.members[i]) IN
         IF e # "Ok" THEN e ELSE validate_members(c, i + 1)

\* find(|c| c.round == round).map(|c| c.amount): the amount of the first
\* record of the round, <<>> if there is none
RoundAmount(m, round) ==
    IF HasRecord(m, round)
    THEN LET k == CHOOSE k \in 1..Len(m.contribution_history) :
                    /\ m.contribution_history[k].round = round
                    /\ \A j \in 1..(k - 1) : m.contribution_history[j].round # round
         IN  <<m.contribution_history[k].amount>>
    ELSE <<>>

RECURSIVE expected_pool(_, _)
\* the u64 sum over the members 1..i: the wrapped sum and whether an
\* addition overflowed
expected_pool(c, i) ==
    IF i = 0 THEN [val |-> SatZero, overflow |-> FALSE]
    ELSE LET rest == expected_pool(c, i - 1)
             a == RoundAmount(c.members[i], c.current_round)
         IN  IF a = <<>> THEN rest
             ELSE LET s == Add64(rest.val, a[1])
                  IN  [val |-> s.val, overflow |-> rest.overflow \/ s.overflow]

\* mutant: the payout index is checked before the current round
validate_index_first(c, checks) ==
    IF Len(c.members) = 0 THEN "NoMembers"
    ELSE IF c.total_rounds # Len(c.members) THEN "TotalRoundsMismatch"
    ELSE IF c.current_payout_index >= Len(c.members) THEN "InvalidPayoutIndex"
    ELSE IF c.current_round > c.total_rounds THEN "RoundExceedsTotal"
    ELSE IF validate_members(c, 1) # "Ok" THEN validate_members(c, 1)
    ELSE LET sum == expected_pool(c, Len(c.members)) IN
         IF sum.overflow /\ checks THEN "Panic"
         ELSE IF c.current_pool # sum.val THEN "PoolMismatch"
         ELSE "Ok"

validate(c, checks) ==
    IF Len(c.members) = 0 THEN "NoMembers"
    ELSE IF c.total_rounds # Len(c.members) THEN "TotalRoundsMismatch"
    ELSE IF c.current_round > c.total_rounds THEN "RoundExceedsTotal"
    ELSE IF c.current_payout_index >= Len(c.members) THEN "InvalidPayoutIndex"
    ELSE IF validate_members(c, 1) # "Ok" THEN validate_members(c, 1)
    ELSE LET sum == expected_pool(c, Len(c.members)) IN
         IF sum.overflow /\ checks THEN "Panic"
         ELSE IF c.current_pool # sum.val THEN "PoolMismatch"
         ELSE "Ok"

----------------------------------------------------------------------------
(* The state machine: the state returned by create, then any sequence of    *)
(* calls                                                                    *)

Init ==
    /\ \E cpr \in ContributionValues : circle = new(1, cpr, 30, 0)
    /\ overflow_checks \in BOOLEAN
    /\ panicked = FALSE
    /\ payouts = <<>>
    /\ last = [op |-> "new", pubkey |-> 0, timestamp |-> 0, result |-> "Ok", ret |-> <<>>]

\* a call of add_member; the model stops admitting members at MaxMembers
AddMember(pubkey, payout_round, timestamp) ==
    /\ ~panicked
    /\ LET r == add_member(circle, pubkey, payout_round, timestamp)
       IN  /\ r.result = "Ok" => Len(circle.members) < MaxMembers
           /\ circle' = r.circle
           /\ last' = [op |-> "add_member", pubkey |-> pubkey, timestamp |-> 0,
                       result |-> r.result, ret |-> <<>>]
    /\ UNCHANGED <<overflow_checks, panicked, payouts>>

\* a call of record_contribution
RecordContribution(pubkey, amount, timestamp, txid) ==
    /\ ~panicked
    /\ LET r == record_contribution(circle, pubkey, amount, timestamp, txid, overflow_checks)
       IN  /\ circle' = r.circle
           /\ panicked' = (r.result = "Panic")
           /\ last' = [op |-> "record_contribution", pubkey |-> pubkey,
                       timestamp |-> 0, result |-> r.result, ret |-> <<>>]
    /\ UNCHANGED <<overflow_checks, payouts>>

\* a call of execute_payout
ExecutePayout(timestamp) ==
    /\ ~panicked
    /\ LET r == execute_payout(circle, timestamp)
       IN  /\ circle' = r.circle
           /\ payouts' = IF r.result = "Ok" THEN Append(payouts, r.ret[1]) ELSE payouts
           /\ last' = [op |-> "execute_payout", pubkey |-> 0, timestamp |-> timestamp,
                       result |-> r.result, ret |-> r.ret]
    /\ UNCHANGED <<overflow_checks, panicked>>

Next ==
    \/ \E pubkey \in PubKeys, payout_round \in PayoutRounds, timestamp \in JoinTimes :
          AddMember(pubkey, payout_round, timestamp)
    \/ \E pubkey \in PubKeys, amount \in ContributionValues,
          timestamp \in ContributionTimes, txid \in Txids :
          RecordContribution(pubkey, amount, timestamp, txid)
    \/ \E timestamp \in PayoutTimes : ExecutePayout(timestamp)

Spec == Init /\ [][Next]_vars

----------------------------------------------------------------------------
(* validate() applied to CircleState values of any shape, as a decoder      *)
(* hands them over: the fields are drawn independently of each other.       *)

AnyRounds == {0, 1}
AnyRecords ==
    {[round |-> r, amount |-> a, timestamp |-> 7, txid |-> 9] :
        r \in AnyRounds, a \in {SatBig}} \cup
    {[round |-> 0, amount |-> SatZero, timestamp |-> 7, txid |-> 9]}
AnyHistories == {<<>>} \cup {<<x>> : x \in AnyRecords} \cup {<<x, y>> : x, y \in AnyRecords}
AnyPayoutRounds == {0, 1, 2}

\* members without their keys
AnyMemberBodies ==
    {[pubkey |-> 0, contribution_amount |-> SatBig, contribution_history |-> h,
      has_received_payout |-> p, payout_round |-> pr, joined_at |-> 3] :
        h \in AnyHistories, p \in BOOLEAN, pr \in AnyPayoutRounds}

\* the keys of the members: pairwise distinct, or all the same
AnyKeyings == {[i \in {1, 2} |-> i], [i \in {1, 2} |-> 1]}

AnyMembers ==
    {<<>>} \cup
    {<<[m EXCEPT !.pubkey = 1]>> : m \in AnyMemberBodies} \cup
    {<<[m1 EXCEPT !.pubkey = k[1]], [m2 EXCEPT !.pubkey = k[2]]>> :
        m1 \in AnyMemberBodies, m2 \in AnyMemberBodies, k \in AnyKeyings}

AnyCurrentRounds == {0, 1, 2, 3}
AnyTotalRounds == {0, 1, 2}
AnyPayoutIndexes == {0, 2}
AnyPools == {SatZero, SatBig, Add64(SatBig, SatBig).val}

InitAny ==
    /\ \E ms \in AnyMembers, r \in AnyCurrentRounds, t \in AnyTotalRounds,
          i \in AnyPayoutIndexes, pool \in AnyPools :
          circle = [new(1, SatBig, 30, 0) EXCEPT
                       !.members = ms,
                       !.current_round = r,
                       !.total_rounds = t,
                       !.current_payout_index = i,
                       !.current_pool = pool]
    /\ overflow_checks \in BOOLEAN
    /\ panicked = FALSE
    /\ payouts = <<>>
    /\ last = [op |-> "new", pubkey |-> 0, timestamp |-> 0, result |-> "Ok", ret |-> <<>>]

\* a call of validate
Validate ==
    /\ last' = [op |-> "validate", pubkey |-> 0, timestamp |-> 0,
                result |-> validate(circle, overflow_checks), ret |-> <<>>]
    /\ UNCHANGED <<circle, overflow_checks, panicked, payouts>>

NextValidate == Validate

SpecValidate == InitAny /\ [][NextValidate]_vars

----------------------------------------------------------------------------
(* CircleState::validate_transition.  A round number is a u32; the value    *)
(* 2^32 - 1 does not fit the integers of the model checker and is written   *)
(* as its 32 bits read as a signed number, -1.  The rounds of the           *)
(* specifications above are small and stand for themselves.                 *)

U32Max == -1

\* a > b on u32
U32Gt(a, b) == IF (a < 0) = (b < 0) THEN a > b ELSE a < 0

\* a + 1 on u32: the wrapped sum and whether it overflowed
U32Inc(a) == [val |-> IF a = U32Max THEN 0 ELSE a + 1, overflow |-> a = U32Max]

\* a < b on u64
Lt64(a, b) ==
    \E k \in 1..4 : a[k] < b[k] /\ \A j \in 1..(k - 1) : a[j] = b[j]

\* self.current_round + 1 panics on overflow when the build checks overflow
\* and wraps otherwise
validate_transition(self, next_state, checks) ==
    IF self.circle_id # next_state.circle_id THEN "CircleIdMismatch"
    ELSE IF self.current_round # 0 /\ Len(self.members) # Len(next_state.members)
    THEN "MemberCountChanged"
    ELSE IF U32Inc(self.current_round).overflow /\ checks THEN "Panic"
    ELSE IF U32Gt(next_state.current_round, U32Inc(self.current_round).val)
    THEN "InvalidRoundProgression"
    ELSE IF next_state.current_round = self.current_round
    THEN (IF Lt64(next_state.current_pool, self.current_pool) THEN "PoolDecreased" ELSE "Ok")
    ELSE (IF next_state.current_pool # SatZero THEN "PoolNotReset" ELSE "Ok")

TransitionErrors == {"CircleIdMismatch", "MemberCountChanged", "InvalidRoundProgression",
                     "PoolDecreased", "PoolNotReset"}

\* pairs of states of any shape in the fields validate_transition reads
TransitionMember(k) ==
    [pubkey |-> k, contribution_amount |-> Sat100k, contribution_history |-> <<>>,
     has_received_payout |-> FALSE, payout_round |-> 0, joined_at |-> 3]

TransitionStates ==
    {[new(id, Sat100k, 30, 0) EXCEPT
         !.members = [k \in 1..n |-> TransitionMember(k)],
         !.total_rounds = n,
         !.current_round = r,
         !.current_pool = pool] :
        id \in {1, 2}, n \in {0, 1, 2}, r \in {0, 1, 2, U32Max},
        pool \in {SatZero, Sat100k, SatBig}}

InitTransition ==
    /\ circle \in TransitionStates
    /\ overflow_checks \in BOOLEAN
    /\ panicked = FALSE
    /\ payouts = <<>>
    /\ last = [op |-> "new", pubkey |-> 0, timestamp |-> 0, result |-> "Ok", ret |-> <<>>]

\* a call of self.validate_transition(next_state); last.next_state is the argument
ValidateTransition(next_state) ==
    /\ last' = [op |-> "validate_transition", pubkey |-> 0, timestamp |-> 0,
                result |-> validate_transition(circle, next_state, overflow_checks),
                ret |-> <<>>, next_state |-> next_state]
    /\ UNCHANGED <<circle, overflow_checks, panicked, payouts>>

NextTransition == \E next_state \in TransitionStates : ValidateTransition(next_state)

SpecTransition == InitTransition /\ [][NextTransition]_vars

----------------------------------------------------------------------------
(* app_contract.  An output of the transaction either has no entry for the  *)
(* app ("absent"), or carries an empty payload for it ("empty"), or carries *)
(* a non-empty one ("data").                                                *)

MaxOuts == 4

Payloads == {"absent", "empty", "data"}

Outs == UNION {[1..n -> Payloads] : n \in 0..MaxOuts}

\* tx.outs.iter().find_map(|out| out.get(app)): the payload of the first
\* output that has an entry for the app
find_map(outs) ==
    IF \A i \in 1..Len(outs) : outs[i] = "absent" THEN "absent"
    ELSE outs[CHOOSE i \in 1..Len(outs) :
                 outs[i] # "absent" /\ \A j \in 1..(i - 1) : outs[j] = "absent"]

app_contract_impl(outs) ==
    IF find_map(outs) = "absent" THEN "NoCharmData"
    ELSE IF find_map(outs) = "empty" THEN "EmptyCharmData"
    ELSE "Ok"

app_contract(outs) == app_contract_impl(outs) = "Ok"

InitContract ==
    /\ circle = new(1, Sat100k, 30, 0)
    /\ overflow_checks \in BOOLEAN
    /\ panicked = FALSE
    /\ payouts = <<>>
    /\ last = [op |-> "new", pubkey |-> 0, timestamp |-> 0, result |-> "Ok", ret |-> <<>>]

\* a call of app_contract on a transaction with the outputs outs
AppContract(outs) ==
    /\ last' = [op |-> "app_contract", pubkey |-> 0, timestamp |-> 0,
                result |-> app_contract_impl(outs), ret |-> app_contract(outs),
                outs |-> outs]
    /\ UNCHANGED <<circle, overflow_checks, panicked, payouts>>

NextContract == \E outs \in Outs : AppContract(outs)

SpecContract == InitContract /\ [][NextContract]_vars

----------------------------------------------------------------------------
(* Properties *)

Errors == {"AlreadyStarted", "DuplicateMember", "InvalidPayoutRound",
           "CircleComplete", "MemberNotFound", "DuplicateContribution",
           "AmountMismatch", "RoundNotFunded", "InvalidIndex", "AlreadyPaid"}

\* the number of successful payouts whose recipient was pubkey
Received(pubkey) == Cardinality({k \in 1..Len(payouts) : payouts[k] = pubkey})

\* the circle with the members' payout_round fields replaced by f
WithPayoutRounds(c, f) ==
    [c EXCEPT !.members = [i \in 1..Len(c.members) |->
                              [c.members[i] EXCEPT !.payout_round = f[i]]]]

\* C1: once a member has joined, validate() returns Ok after every call that
\* returned, whether it succeeded or failed.
C1_ValidateOk ==
    (Len(circle.members) >= 1 /\ ~panicked) => validate(circle, overflow_checks) = "Ok"

C1_Witness ==
    /\ Len(circle.members) >= 2
    /\ circle.current_round >= 1
    /\ last.result \in Errors
    /\ validate(circle, overflow_checks) = "Ok"

\* C2: a successful execute_payout(timestamp) on a state with n members,
\* payout index i, round r and pool p returns (pubkey of members[i], p), marks
\* members[i] as paid, sets the pool to 0, the round to r + 1, the index to
\* (i + 1) mod n, round_started_at to timestamp, and is_complete to
\* r + 1 >= total_rounds.
C2_PayoutEffect ==
    [][(last'.op = "execute_payout" /\ last'.result = "Ok") =>
        LET n == Len(circle.members)
            i == circle.current_payout_index
            r == circle.current_round
            p == circle.current_pool
        IN  /\ last'.ret = <<circle.members[i + 1].pubkey, p>>
            /\ circle'.members[i + 1].has_received_payout = TRUE
            /\ circle'.current_pool = SatZero
            /\ circle'.current_round = r + 1
            /\ circle'.current_payout_index = (i + 1) % n
            /\ circle'.round_started_at = last'.timestamp
            /\ circle'.is_complete = (r + 1 >= circle.total_rounds)]_vars

C2_Witness ==
    /\ last.op = "execute_payout"
    /\ last.result = "Ok"
    /\ Len(circle.members) = 2
    /\ circle.current_round = 2
    /\ circle.current_payout_index = 0
    /\ circle.is_complete

\* C3: the recipient of the k-th successful execute_payout is the member at
\* join position k, and neither the result nor the returned value of
\* execute_payout depends on the payout_round of any member.
C3_PositionalRotation ==
    /\ \A k \in 1..Len(payouts) :
          k <= Len(circle.members) /\ payouts[k] = circle.members[k].pubkey
    /\ \A timestamp \in PayoutTimes :
       \A f \in [1..Len(circle.members) -> PayoutRounds] :
          LET r1 == execute_payout(circle, timestamp)
              r2 == execute_payout(WithPayoutRounds(circle, f), timestamp)
          IN  r1.result = r2.result /\ r1.ret = r2.ret

C3_Witness ==
    /\ Len(payouts) = 2
    /\ circle.members[2].payout_round = 0
    /\ payouts[2] = circle.members[2].pubkey

\* C4: a circle of n >= 1 members is complete exactly from its n-th successful
\* execute_payout on; then current_round = n = total_rounds and every
\* record_contribution fails with the circle-complete error.
C4_Completion ==
    LET n == Len(circle.members) IN
    /\ Len(payouts) <= n
    /\ circle.is_complete <=> (n >= 1 /\ Len(payouts) = n)
    /\ circle.is_complete =>
          /\ circle.current_round = n
          /\ circle.total_rounds = n
          /\ \A pubkey \in PubKeys, amount \in ContributionValues,
                timestamp \in ContributionTimes, txid \in Txids :
                record_contribution(circle, pubkey, amount, timestamp, txid,
                                    overflow_checks).result = "CircleComplete"
          /\ last.op = "record_contribution" => last.result = "CircleComplete"

C4_Witness ==
    /\ circle.is_complete
    /\ Len(circle.members) = 2
    /\ Len(payouts) = 2
    /\ last.op = "record_contribution"
    /\ last.result = "CircleComplete"

\* C5: once is_complete is true, every call returns an error and leaves every
\* field of the state as it was.
C5_Terminal ==
    [][circle.is_complete => (last'.result \in Errors /\ circle' = circle)]_vars

C5_Witness ==
    /\ circle.is_complete
    /\ last.op = "execute_payout"
    /\ last.result = "CircleComplete"

\* C6: no member is ever the recipient of two payouts, and in a complete
\* circle every member is marked as paid and was the recipient of exactly one
\* payout.
C6_OnePayoutEach ==
    /\ \A pubkey \in PubKeys : Received(pubkey) <= 1
    /\ circle.is_complete =>
          \A i \in 1..Len(circle.members) :
              /\ circle.members[i].has_received_payout
              /\ Received(circle.members[i].pubkey) = 1

C6_Witness ==
    /\ circle.is_complete
    /\ Len(circle.members) = 2
    /\ last.op = "execute_payout"
    /\ last.result = "Ok"

\* C7: record_contribution for a member that already has a record for
\* current_round fails with the duplicate-contribution error and does not
\* increase current_pool; no history holds two records of the same round.
C7_NoDuplicateContribution ==
    /\ \A pubkey \in PubKeys, amount \in ContributionValues,
          timestamp \in ContributionTimes, txid \in Txids :
          (/\ HasMember(circle, pubkey)
           /\ HasRecord(circle.members[FindMember(circle, pubkey)], circle.current_round))
          => LET r == record_contribution(circle, pubkey, amount, timestamp, txid,
                                          overflow_checks)
             IN  r.result = "DuplicateContribution"
                 /\ r.circle.current_pool = circle.current_pool
    /\ (last.op = "record_contribution" /\ last.result = "Ok") =>
          HasRecord(circle.members[FindMember(circle, last.pubkey)], circle.current_round)
    /\ \A i \in 1..Len(circle.members) :
          LET h == circle.members[i].contribution_history IN
          \A k1, k2 \in 1..Len(h) : k1 # k2 => h[k1].round # h[k2].round

C7_Witness ==
    /\ last.op = "record_contribution"
    /\ last.result = "DuplicateContribution"
    /\ circle.current_round = 1
    /\ circle.current_pool # SatZero

\* C8: once current_round > 0, add_member fails with the already-started error
\* whatever its arguments and leaves the state unchanged, and the sequence of
\* members (their keys, schedule and join times) never changes.
C8_FrozenMembers ==
    /\ [](circle.current_round > 0 =>
            \A pubkey \in PubKeys, payout_round \in PayoutRounds, timestamp \in JoinTimes :
               add_member(circle, pubkey, payout_round, timestamp) =
                   [circle |-> circle, result |-> "AlreadyStarted"])
    /\ [][circle.current_round > 0 =>
            /\ last'.op = "add_member" =>
                  (last'.result = "AlreadyStarted" /\ circle' = circle)
            /\ Len(circle'.members) = Len(circle.members)
            /\ \A i \in 1..Len(circle.members) :
                  /\ circle'.members[i].pubkey = circle.members[i].pubkey
                  /\ circle'.members[i].payout_round = circle.members[i].payout_round
                  /\ circle'.members[i].joined_at = circle.members[i].joined_at]_vars

C8_Witness ==
    /\ circle.current_round > 0
    /\ ~circle.is_complete
    /\ last.op = "add_member"
    /\ last.result = "AlreadyStarted"
    /\ ~HasMember(circle, last.pubkey)

\* C9: an execute_payout that returns an error leaves every field of the
\* state as it was.
C9_PayoutFailureNoOp ==
    [][(last'.op = "execute_payout" /\ last'.result \in Errors) =>
          (circle' = circle /\ payouts' = payouts)]_vars

C9_Witness ==
    /\ last.op = "execute_payout"
    /\ last.result = "RoundNotFunded"
    /\ circle.current_round = 1
    /\ circle.current_pool # SatZero

\* C10: an add_member or record_contribution that returns an error leaves
\* every field of the state as it was.
C10_FailureNoOp ==
    [][(last'.op \in {"add_member", "record_contribution"} /\ last'.result \in Errors) =>
          circle' = circle]_vars

C10_Witness ==
    /\ last.op = "record_contribution"
    /\ last.result = "AmountMismatch"
    /\ circle.current_pool # SatZero

\* the members' public keys are pairwise distinct
DistinctKeys(c) ==
    \A i, j \in 1..Len(c.members) : i # j => c.members[i].pubkey # c.members[j].pubkey

\* the error add_member returns for a pubkey that is already a member
DuplicateError(c) == IF c.current_round > 0 THEN "AlreadyStarted" ELSE "DuplicateMember"

\* C11 as stated: add_member with the pubkey of an existing member fails with
\* the duplicate-member error and leaves the member count unchanged.
C11_Original ==
    [][(last'.op = "add_member" /\ HasMember(circle, last'.pubkey)) =>
          (last'.result = "DuplicateMember"
           /\ Len(circle'.members) = Len(circle.members))]_vars

\* C11 as amended: add_member with the pubkey of an existing member fails,
\* with the duplicate-member error while current_round = 0 and with the
\* already-started error once current_round > 0, and leaves the state
\* unchanged; the members' public keys are pairwise distinct in every
\* reachable state.
C11_DuplicateMember ==
    /\ [](DistinctKeys(circle))
    /\ [](\A pubkey \in PubKeys, payout_round \in PayoutRounds, timestamp \in JoinTimes :
             HasMember(circle, pubkey) =>
                add_member(circle, pubkey, payout_round, timestamp) =
                    [circle |-> circle, result |-> DuplicateError(circle)])
    /\ [][(last'.op = "add_member" /\ HasMember(circle, last'.pubkey)) =>
             (last'.result = DuplicateError(circle)
              /\ Len(circle'.members) = Len(circle.members))]_vars

C11_Witness ==
    /\ last.op = "add_member"
    /\ last.result = "DuplicateMember"
    /\ Len(circle.members) = 2
    /\ HasMember(circle, last.pubkey)

\* C12: with current_round = 0 and a pubkey not yet present, add_member
\* succeeds iff payout_round <= members.length before the insertion; on
\* success one member is appended with contribution_amount =
\* contribution_per_round, empty history, has_received_payout = false, the
\* given payout_round and joined_at = timestamp, total_rounds is the new
\* length and the new member's payout_round < total_rounds.
C12_AddMemberSuccess ==
    /\ \A pubkey \in PubKeys, payout_round \in PayoutRounds, timestamp \in JoinTimes :
          (circle.current_round = 0 /\ ~HasMember(circle, pubkey)) =>
             LET r == add_member(circle, pubkey, payout_round, timestamp)
                 n == Len(circle.members)
             IN  /\ (r.result = "Ok") <=> (payout_round <= n)
                 /\ r.result = "Ok" =>
                       /\ r.circle.members =
                             Append(circle.members,
                                    [pubkey |-> pubkey,
                                     contribution_amount |-> circle.contribution_per_round,
                                     contribution_history |-> <<>>,
                                     has_received_payout |-> FALSE,
                                     payout_round |-> payout_round,
                                     joined_at |-> timestamp])
                       /\ r.circle.total_rounds = n + 1
                       /\ payout_round < r.circle.total_rounds
    /\ (last.op = "add_member" /\ last.result = "Ok") =>
          LET m == circle.members[Len(circle.members)] IN
          /\ m.pubkey = last.pubkey
          /\ m.contribution_amount = circle.contribution_per_round
          /\ m.contribution_history = <<>>
          /\ m.has_received_payout = FALSE
          /\ m.joined_at \in JoinTimes
          /\ m.payout_round < circle.total_rounds
          /\ circle.total_rounds = Len(circle.members)

C12_Witness ==
    /\ last.op = "add_member"
    /\ last.result = "Ok"
    /\ Len(circle.members) = 2
    /\ circle.members[2].payout_round = 1
    /\ circle.members[1].contribution_history # <<>>

\* C17: after a successful execute_payout on s, prev_state_hash is the
\* state_hash of s with only the recipient's has_received_payout set: pool,
\* round, index, round_started_at, is_complete and the old prev_state_hash
\* are still those of s.
C17_HashBeforeReset ==
    [][(last'.op = "execute_payout" /\ last'.result = "Ok") =>
          circle'.prev_state_hash =
              state_hash([circle EXCEPT
                  !.members[circle.current_payout_index + 1].has_received_payout = TRUE])]_vars

C17_Witness ==
    /\ last.op = "execute_payout"
    /\ last.result = "Ok"
    /\ circle.current_round = 2
    /\ circle.prev_state_hash # ZeroHash
    /\ Decode(circle.prev_state_hash[1]).prev_state_hash # ZeroHash
    /\ Decode(circle.prev_state_hash[1]).current_pool # SatZero

\* the number of records of a round in a member's history
RecordsOfRound(m, round) ==
    Cardinality({k \in 1..Len(m.contribution_history) : m.contribution_history[k].round = round})

\* C18: right after a successful execute_payout that does not complete the
\* circle, execute_payout fails with the round-not-funded error; at a
\* successful execute_payout every member holds exactly one record of the
\* round paid out, and a record is added only by a successful
\* record_contribution of that member, one per call.
C18_OneContributionPerRound ==
    /\ []((last.op = "execute_payout" /\ last.result = "Ok" /\ ~circle.is_complete) =>
             \A timestamp \in PayoutTimes :
                execute_payout(circle, timestamp) =
                    [circle |-> circle, result |-> "RoundNotFunded", ret |-> <<>>])
    /\ [][(last'.op = "execute_payout" /\ last'.result = "Ok") =>
             \A i \in 1..Len(circle.members) :
                RecordsOfRound(circle.members[i], circle.current_round) = 1]_vars
    /\ [][~panicked' =>
             \A i \in 1..Len(circle.members) :
                Len(circle'.members[i].contribution_history) =
                   Len(circle.members[i].contribution_history) +
                   (IF /\ last'.op = "record_contribution"
                       /\ last'.result = "Ok"
                       /\ last'.pubkey = circle.members[i].pubkey
                    THEN 1 ELSE 0)]_vars

C18_Witness ==
    /\ last.op = "execute_payout"
    /\ last.result = "RoundNotFunded"
    /\ circle.current_round = 1
    /\ circle.current_pool = SatZero
    /\ Len(payouts) = 1

NoDuplicateRounds(c) ==
    \A i \in 1..Len(c.members) :
       LET h == c.members[i].contribution_history IN
       \A k1, k2 \in 1..Len(h) : k1 # k2 => h[k1].round # h[k2].round

\* the five conditions of C13; the pool equals the sum as integers, or, with
\* wrapped = TRUE, modulo 2^64
FiveConditions(c, wrapped) ==
    /\ c.total_rounds = Len(c.members)
    /\ c.current_round <= c.total_rounds
    /\ c.current_payout_index < Len(c.members)
    /\ LET sum == expected_pool(c, Len(c.members)) IN
       c.current_pool = sum.val /\ (wrapped \/ ~sum.overflow)
    /\ NoDuplicateRounds(c)

\* the per-member conditions validate checks besides
MemberConditions(c) ==
    \A i \in 1..Len(c.members) :
       LET m == c.members[i] IN
       /\ m.payout_round < c.total_rounds
       /\ m.has_received_payout => m.payout_round < c.current_round
       /\ \A k \in 1..Len(m.contribution_history) :
             /\ m.contribution_history[k].round < c.total_rounds
             /\ m.contribution_history[k].amount = c.contribution_per_round

\* C13 as stated: for every CircleState value validate() returns Ok iff the
\* five conditions hold.
C13_Original ==
    last.op = "validate" => ((last.result = "Ok") <=> FiveConditions(circle, FALSE))

\* C13 as amended: validate() returns Ok iff the five conditions hold, the
\* pool sum taken modulo 2^64, and besides every member's payout_round <
\* total_rounds, every paid member's payout_round < current_round, and every
\* record has round < total_rounds and amount = contribution_per_round;
\* except that a build that checks overflow aborts, instead of returning Ok
\* or the pool error, exactly when all the other conditions hold and the
\* pool sum overflows.
C13_ValidateIff ==
    last.op = "validate" =>
       LET others == /\ circle.total_rounds = Len(circle.members)
                     /\ circle.current_round <= circle.total_rounds
                     /\ circle.current_payout_index < Len(circle.members)
                     /\ NoDuplicateRounds(circle)
                     /\ MemberConditions(circle)
           aborts == /\ others
                     /\ overflow_checks
                     /\ expected_pool(circle, Len(circle.members)).overflow
       IN  /\ (last.result = "Panic") <=> aborts
           /\ (last.result = "Ok") <=>
                 (FiveConditions(circle, TRUE) /\ MemberConditions(circle) /\ ~aborts)

C13_Witness ==
    /\ last.op = "validate"
    /\ last.result = "Ok"
    /\ Len(circle.members) = 2
    /\ circle.current_round = 1
    /\ circle.members[1].has_received_payout
    /\ circle.current_pool = Add64(SatBig, SatBig).val
    /\ expected_pool(circle, 2).overflow

\* C14 as stated: on every CircleState value on which validate() returns Ok
\* the members' public keys are pairwise distinct.
C14_ValidImpliesDistinctKeys ==
    (last.op = "validate" /\ last.result = "Ok") => DistinctKeys(circle)

\* next.current_round is self.current_round or self.current_round + 1
RoundStep(self, next_state) ==
    \/ next_state.current_round = self.current_round
    \/ self.current_round # U32Max /\ next_state.current_round = self.current_round + 1

\* C15 as stated: validate_transition(next) returns an error unless
\* next.current_round is self.current_round or self.current_round + 1; a next
\* state with a smaller current_round is rejected.
C15_RoundProgression ==
    last.op = "validate_transition" =>
       /\ ~RoundStep(circle, last.next_state) => last.result \in TransitionErrors
       /\ U32Gt(circle.current_round, last.next_state.current_round) =>
             last.result \in TransitionErrors

\* C16 as stated: validate_transition(next) returns an error if circle_id
\* differs, or self.current_round > 0 and the member counts differ, or the
\* round is unchanged and next.current_pool < self.current_pool, or the
\* round advanced and next.current_pool # 0; with self.current_round = 0 a
\* change of the member count alone is accepted.
C16_TransitionRejections ==
    last.op = "validate_transition" =>
       LET self == circle
           next_state == last.next_state
       IN  /\ self.circle_id # next_state.circle_id => last.result \in TransitionErrors
           /\ (self.current_round # 0 /\ Len(self.members) # Len(next_state.members))
                 => last.result \in TransitionErrors
           /\ (next_state.current_round = self.current_round
               /\ Lt64(next_state.current_pool, self.current_pool))
                 => last.result \in TransitionErrors
           /\ (next_state.current_round # self.current_round
               /\ next_state.current_pool # SatZero)
                 => last.result \in TransitionErrors
           /\ (/\ self.current_round = 0
               /\ next_state = [self EXCEPT !.members = next_state.members,
                                            !.total_rounds = next_state.total_rounds])
                 => last.result = "Ok"

\* C19 as stated: app_contract returns true exactly when at least one output
\* carries a non-empty payload for the app, also when an earlier output
\* carries an empty one.
C19_AnyOutputWithData ==
    last.op = "app_contract" =>
       (last.ret = TRUE <=> \E i \in 1..Len(last.outs) : last.outs[i] = "data")

MemberErrors == {"InvalidMemberPayoutRound", "PaidBeforeRound", "InvalidContributionRound",
                 "InvalidContributionAmount", "DuplicateContributionRound"}

\* C21: validate() returns the error of the earliest violated check in the
\* order members non-empty, total_rounds = members.length, current_round <=
\* total_rounds, current_payout_index < members.length, per-member checks,
\* pool sum; a state with no members, the state returned by create among
\* them, gets the no-members error whatever its other fields are.
C21_FailFast ==
    /\ \A cpr \in ContributionValues : validate(new(1, cpr, 30, 0), overflow_checks) = "NoMembers"
    /\ last.op = "validate" =>
          IF Len(circle.members) = 0 THEN last.result = "NoMembers"
          ELSE IF circle.total_rounds # Len(circle.members)
          THEN last.result = "TotalRoundsMismatch"
          ELSE IF ~(circle.current_round <= circle.total_rounds)
          THEN last.result = "RoundExceedsTotal"
          ELSE IF ~(circle.current_payout_index < Len(circle.members))
          THEN last.result = "InvalidPayoutIndex"
          ELSE IF ~(MemberConditions(circle) /\ NoDuplicateRounds(circle))
          THEN last.result \in MemberErrors
          ELSE last.result \in {"Ok", "PoolMismatch", "Panic"}

C21_Witness ==
    /\ last.op = "validate"
    /\ last.result = "NoMembers"
    /\ circle.members = <<>>
    /\ circle.total_rounds # 0
    /\ circle.current_round > circle.total_rounds
    /\ circle.current_pool # SatZero

\* C22 as stated: every record_contribution that passes its checks returns
\* and leaves current_pool equal to the previous current_pool plus the
\* amount as integers: the 64-bit addition neither wraps nor aborts.
C22_PoolNeverOverflows ==
    [][last'.op = "record_contribution" =>
          /\ last'.result # "Panic"
          /\ last'.result = "Ok" =>
                LET sum == Add64(circle.current_pool, circle.contribution_per_round)
                IN  ~sum.overflow /\ circle'.current_pool = sum.val]_vars

\* C23 as stated: for every successful add_member, record_contribution or
\* execute_payout taking a reachable state s to s', s.validate_transition(s')
\* returns Ok.
C23_LifecycleAccepted ==
    [][(last'.op \in {"add_member", "record_contribution", "execute_payout"}
        /\ last'.result = "Ok") =>
          validate_transition(circle, circle', overflow_checks) = "Ok"]_vars

\* C24: in no reachable state does execute_payout fail with the already-paid
\* error (the member at current_payout_index is not yet paid when the circle
\* is not complete and the round is funded), and it fails with the
\* invalid-index error only on a circle with zero members, whose round
\* counts as fully funded.
C24_PayoutErrors ==
    /\ execute_payout_check(circle) # "AlreadyPaid"
    /\ (~circle.is_complete /\ is_round_fully_funded(circle) /\ Len(circle.members) > 0) =>
          /\ circle.current_payout_index < Len(circle.members)
          /\ ~circle.members[circle.current_payout_index + 1].has_received_payout
    /\ execute_payout_check(circle) = "InvalidIndex" <=> Len(circle.members) = 0
    /\ Len(circle.members) = 0 => is_round_fully_funded(circle)
    /\ last.op = "execute_payout" =>
          /\ last.result # "AlreadyPaid"
          /\ last.result = "InvalidIndex" => Len(circle.members) = 0

C24_Witness ==
    /\ Len(payouts) = 1
    /\ ~circle.is_complete
    /\ Len(circle.members) = 2
    /\ circle.current_round = 1
    /\ is_round_fully_funded(circle)
    /\ circle.members[1].has_received_payout
    /\ ~circle.members[circle.current_payout_index + 1].has_received_payout

\* C25: in every reachable state total_rounds = members.length, and with
\* n >= 1 members current_payout_index = current_round mod n and exactly the
\* members at the join positions 0 .. current_round - 1 are marked as paid.
C25_RotationInvariant ==
    LET n == Len(circle.members) IN
    /\ circle.total_rounds = n
    /\ n >= 1 =>
          /\ circle.current_payout_index = circle.current_round % n
          /\ \A i \in 1..n :
                circle.members[i].has_received_payout <=> (i - 1 < circle.current_round)

C25_Witness ==
    /\ Len(circle.members) = 2
    /\ circle.current_round = 2
    /\ circle.current_payout_index = 0
    /\ circle.members[2].has_received_payout
    /\ last.op = "execute_payout"
    /\ last.result = "Ok"
    /\ last.timestamp = 2

RECURSIVE Times64(_, _)
\* k times the amount a: the sum modulo 2^64 and whether it exceeds 2^64 - 1
Times64(a, k) ==
    IF k = 0 THEN [val |-> SatZero, overflow |-> FALSE]
    ELSE LET rest == Times64(a, k - 1)
             s == Add64(rest.val, a)
         IN  [val |-> s.val, overflow |-> rest.overflow \/ s.overflow]

\* the number of members holding a record for current_round
ContributorsThisRound(c) ==
    Cardinality({i \in 1..Len(c.members) : HasRecord(c.members[i], c.current_round)})

\* C26 as stated: in every reachable state current_pool is
\* contribution_per_round times the number of members holding a record for
\* current_round; every successful execute_payout returns members.length
\* times contribution_per_round; in a completed circle every member has
\* contributed total_rounds times and received one payout of that total.
C26_PoolAccounting ==
    /\ LET p == Times64(circle.contribution_per_round, ContributorsThisRound(circle))
       IN  ~p.overflow /\ circle.current_pool = p.val
    /\ (last.op = "execute_payout" /\ last.result = "Ok") =>
          LET p == Times64(circle.contribution_per_round, Len(circle.members))
          IN  ~p.overflow /\ last.ret[2] = p.val
    /\ circle.is_complete =>
          \A i \in 1..Len(circle.members) :
             /\ Len(circle.members[i].contribution_history) = circle.total_rounds
             /\ Received(circle.members[i].pubkey) = 1

\* C27: a successful record_contribution changes only the history of the
\* named member, by one record appended at the end with round =
\* current_round and the given amount, timestamp and txid, and current_pool;
\* a successful add_member leaves the existing members, current_pool,
\* current_round, current_payout_index, is_complete and prev_state_hash
\* unchanged.
C27_Frame ==
    /\ [](\A pubkey \in PubKeys, amount \in ContributionValues,
             timestamp \in ContributionTimes, txid \in Txids :
             LET r == record_contribution(circle, pubkey, amount, timestamp, txid,
                                          overflow_checks)
                 rec == [round |-> circle.current_round, amount |-> amount,
                         timestamp |-> timestamp, txid |-> txid]
             IN  r.result = "Ok" =>
                    r.circle = [circle EXCEPT
                                   !.members[FindMember(circle, pubkey)].contribution_history =
                                       Append(@, rec),
                                   !.current_pool = r.circle.current_pool])
    /\ [][(last'.op = "record_contribution" /\ last'.result = "Ok") =>
             LET i == FindMember(circle, last'.pubkey)
                 h == circle.members[i].contribution_history
                 h2 == circle'.members[i].contribution_history
             IN  /\ Len(h2) = Len(h) + 1
                 /\ SubSeq(h2, 1, Len(h)) = h
                 /\ h2[Len(h2)].round = circle.current_round
                 /\ h2[Len(h2)].amount = circle.contribution_per_round
                 /\ circle' = [circle EXCEPT
                                  !.members[i].contribution_history = h2,
                                  !.current_pool = circle'.current_pool]]_vars
    /\ [][(last'.op = "add_member" /\ last'.result = "Ok") =>
             /\ Len(circle'.members) = Len(circle.members) + 1
             /\ SubSeq(circle'.members, 1, Len(circle.members)) = circle.members
             /\ circle'.current_pool = circle.current_pool
             /\ circle'.current_round = circle.current_round
             /\ circle'.current_payout_index = circle.current_payout_index
             /\ circle'.is_complete = circle.is_complete
             /\ circle'.prev_state_hash = circle.prev_state_hash]_vars

C27_Witness ==
    /\ last.op = "record_contribution"
    /\ last.result = "Ok"
    /\ circle.current_round = 1
    /\ last.pubkey = circle.members[2].pubkey
    /\ Len(circle.members[2].contribution_history) = 2
    /\ Len(circle.members[1].contribution_history) = 2

====
